---------------------------- MODULE Spec2Model ----------------------------
(***************************************************************************)
(* pamcut: cut a rectangle out of each image of a Netpbm stream.           *)
(*                                                                         *)
(* The model follows src/editor/pamcut.c: the command line is parsed into  *)
(* a CmdlineInfo, and for every image of the input stream cutOneImage      *)
(* resolves the rectangle (computeCutBounds), validates it                 *)
(* (rejectOutOfBounds), writes the output header and extracts the rows on  *)
(* the general path (extractRowsGen, with its rowCutter) or on the packed  *)
(* 1-bit path (extractRowsPBM).                                            *)
(***************************************************************************)
EXTENDS Integers, Sequences, FiniteSets, TLC

VARIABLES
    argv,       \* the command line: options given, -pad, non-option arguments
    stream,     \* the input stream: a sequence of images
    pc,         \* "start", "image", "rows", "next", "done", "error"
    cmdline,    \* struct CmdlineInfo
    imgIdx,     \* the image of the stream being processed (1-based)
    rect,       \* leftcol, rightcol, toprow, bottomrow of the current image
    outHeaders, \* the headers written to the output, in order
    outRows,    \* per header written, the rows written after it
    readLog,    \* per header read, the input rows read, in order
    nextCalls,  \* how many times pnm_nextimage was called
    err         \* which pm_error() ended the program, "" if none

vars == <<argv, stream, pc, cmdline, imgIdx, rect, outHeaders,
          outRows, readLog, nextCalls, err>>

--------------------------------------------------------------------------
(* C int: 32 bits, two's complement                                        *)

INT_MAX == 2147483647

INT_MIN == (0 - INT_MAX) - 1

UNSPEC == INT_MAX

\* a + b in a 32-bit int, wrapping; no intermediate value leaves the range
IntAdd(a, b) ==
    IF b > 0 /\ a > INT_MAX - b
    THEN ((a - INT_MAX) - 1) + ((b - INT_MAX) - 1)
    ELSE IF b < 0 /\ a < INT_MIN - b
         THEN ((a + INT_MAX) + 1) + ((b + INT_MAX) + 1)
         ELSE a + b

\* a - b in a 32-bit int, wrapping
IntSub(a, b) ==
    IF b = INT_MIN
    THEN IntAdd(IntAdd(a, INT_MAX), 1)
    ELSE IntAdd(a, 0 - b)

MAX(a, b) == IF a > b THEN a ELSE b

\* a + b and a - b do not fit an int: the behaviour of the C expression is
\* undefined
AddOverflows(a, b) ==
    \/ b > 0 /\ a > INT_MAX - b
    \/ b < 0 /\ a < INT_MIN - b

SubOverflows(a, b) ==
    \/ b < 0 /\ a > INT_MAX + b
    \/ b > 0 /\ a < INT_MIN + b

\* What a build makes of a signed overflow: the sum wrapped to 32 bits, or
\* the program aborted
OverflowOutcomes(overflows) ==
    IF overflows THEN {"wrap", "trap"} ELSE {"wrap"}

MIN(a, b) == IF a < b THEN a ELSE b

--------------------------------------------------------------------------
(* The command line                                                        *)

OptNames == {"left", "right", "top", "bottom", "width", "height"}

\* The value OptParseOptions3 leaves in a field: the option's value when the
\* option is on the command line, the default set before the parse otherwise.
optValue(av, name) ==
    IF name \in DOMAIN av.opts THEN av.opts[name] ELSE UNSPEC

\* legacyEdge without the - 1
legacyEdge_noMinusOne(arg) == IF arg > 0 THEN UNSPEC ELSE arg

\* The legacy form's third and fourth arguments: a positive one is a size,
\* any other one is the far edge, minus one.
legacySize(arg) == IF arg > 0 THEN arg ELSE UNSPEC

legacyEdge(arg) == IF arg > 0 THEN UNSPEC ELSE IntSub(arg, 1)

parseCommandLine(av) ==
    LET opt == [left   |-> optValue(av, "left"),
                right  |-> optValue(av, "right"),
                top    |-> optValue(av, "top"),
                bottom |-> optValue(av, "bottom"),
                width  |-> optValue(av, "width"),
                height |-> optValue(av, "height"),
                pad    |-> av.pad]
    IN  IF opt.width < 0 THEN [err |-> "width", cmdline |-> opt]
        ELSE IF opt.height < 0 THEN [err |-> "height", cmdline |-> opt]
        ELSE IF av.nargs \notin {0, 1, 4, 5}
             THEN [err |-> "argcount", cmdline |-> opt]
        ELSE IF av.nargs \in {4, 5}
             THEN [err |-> "",
                   cmdline |-> [opt EXCEPT
                       !.left   = av.pos[1],
                       !.top    = av.pos[2],
                       !.width  = legacySize(av.pos[3]),
                       !.right  = legacyEdge(av.pos[3]),
                       !.height = legacySize(av.pos[4]),
                       !.bottom = legacyEdge(av.pos[4])]]
        ELSE [err |-> "", cmdline |-> opt]

--------------------------------------------------------------------------
(* computeCutBounds                                                        *)

\* Translate negative column and row into real column and row
farEdge(extent, arg) == IF arg >= 0 THEN arg ELSE IntAdd(extent, arg)

\* Sort out left, right, and width specifications
cutBoundsHoriz(cols, leftcol, rightcol, widtharg) ==
    CASE leftcol = UNSPEC /\ rightcol = UNSPEC /\ widtharg = UNSPEC ->
            [err |-> "", lo |-> 0, hi |-> IntSub(cols, 1)]
      [] leftcol = UNSPEC /\ rightcol = UNSPEC /\ widtharg # UNSPEC ->
            [err |-> "", lo |-> 0, hi |-> IntSub(IntAdd(0, widtharg), 1)]
      [] leftcol = UNSPEC /\ rightcol # UNSPEC /\ widtharg = UNSPEC ->
            [err |-> "", lo |-> 0, hi |-> rightcol]
      [] leftcol = UNSPEC /\ rightcol # UNSPEC /\ widtharg # UNSPEC ->
            [err |-> "", lo |-> IntAdd(IntSub(rightcol, widtharg), 1),
             hi |-> rightcol]
      [] leftcol # UNSPEC /\ rightcol = UNSPEC /\ widtharg = UNSPEC ->
            [err |-> "", lo |-> leftcol, hi |-> IntSub(cols, 1)]
      [] leftcol # UNSPEC /\ rightcol = UNSPEC /\ widtharg # UNSPEC ->
            [err |-> "", lo |-> leftcol,
             hi |-> IntSub(IntAdd(leftcol, widtharg), 1)]
      [] leftcol # UNSPEC /\ rightcol # UNSPEC /\ widtharg = UNSPEC ->
            [err |-> "", lo |-> leftcol, hi |-> rightcol]
      [] leftcol # UNSPEC /\ rightcol # UNSPEC /\ widtharg # UNSPEC ->
            [err |-> "overspecH", lo |-> 0, hi |-> 0]

\* cutBoundsVert with the top of the bottom+height case one row too high
cutBoundsVert_offByOne(rows, toprow, bottomrow, heightarg) ==
    LET h == cutBoundsHoriz(rows, toprow, bottomrow, heightarg)
    IN  IF h.err # "" THEN [h EXCEPT !.err = "overspecV"]
        ELSE IF toprow = UNSPEC /\ bottomrow # UNSPEC /\ heightarg # UNSPEC
             THEN [h EXCEPT !.lo = IntSub(bottomrow, heightarg)]
             ELSE h

\* Sort out top, bottom, and height specifications
cutBoundsVert(rows, toprow, bottomrow, heightarg) ==
    CASE toprow = UNSPEC /\ bottomrow = UNSPEC /\ heightarg = UNSPEC ->
            [err |-> "", lo |-> 0, hi |-> IntSub(rows, 1)]
      [] toprow = UNSPEC /\ bottomrow = UNSPEC /\ heightarg # UNSPEC ->
            [err |-> "", lo |-> 0, hi |-> IntSub(IntAdd(0, heightarg), 1)]
      [] toprow = UNSPEC /\ bottomrow # UNSPEC /\ heightarg = UNSPEC ->
            [err |-> "", lo |-> 0, hi |-> bottomrow]
      [] toprow = UNSPEC /\ bottomrow # UNSPEC /\ heightarg # UNSPEC ->
            [err |-> "", lo |-> IntAdd(IntSub(bottomrow, heightarg), 1),
             hi |-> bottomrow]
      [] toprow # UNSPEC /\ bottomrow = UNSPEC /\ heightarg = UNSPEC ->
            [err |-> "", lo |-> toprow, hi |-> IntSub(rows, 1)]
      [] toprow # UNSPEC /\ bottomrow = UNSPEC /\ heightarg # UNSPEC ->
            [err |-> "", lo |-> toprow,
             hi |-> IntSub(IntAdd(toprow, heightarg), 1)]
      [] toprow # UNSPEC /\ bottomrow # UNSPEC /\ heightarg = UNSPEC ->
            [err |-> "", lo |-> toprow, hi |-> bottomrow]
      [] toprow # UNSPEC /\ bottomrow # UNSPEC /\ heightarg # UNSPEC ->
            [err |-> "overspecV", lo |-> 0, hi |-> 0]

\* The sums of one axis' case that do not fit an int
axisOverflows(extent, loArg, hiArg, size) ==
    LET lo == farEdge(extent, loArg)
        hi == farEdge(extent, hiArg)
    IN  CASE lo = UNSPEC /\ hi # UNSPEC /\ size # UNSPEC ->
                SubOverflows(hi, size) \/ AddOverflows(IntSub(hi, size), 1)
          [] lo # UNSPEC /\ hi = UNSPEC /\ size # UNSPEC ->
                AddOverflows(lo, size) \/ SubOverflows(IntAdd(lo, size), 1)
          [] OTHER -> FALSE

NoRect == [leftcol |-> 0, rightcol |-> 0, toprow |-> 0, bottomrow |-> 0]

\* The horizontal sort comes first; its pm_error() ends the program before
\* the vertical one is looked at.
computeCutBounds(cols, rows, leftarg, rightarg, toparg, bottomarg, widtharg, heightarg) ==
    LET leftcol   == farEdge(cols, leftarg)
        rightcol  == farEdge(cols, rightarg)
        toprow    == farEdge(rows, toparg)
        bottomrow == farEdge(rows, bottomarg)
        h == cutBoundsHoriz(cols, leftcol, rightcol, widtharg)
        v == cutBoundsVert(rows, toprow, bottomrow, heightarg)
    IN  IF h.err # "" THEN [err |-> h.err, rect |-> NoRect]
        ELSE IF v.err # "" THEN [err |-> v.err, rect |-> NoRect]
        ELSE [err |-> "",
              rect |-> [leftcol |-> h.lo, rightcol |-> h.hi,
                        toprow |-> v.lo, bottomrow |-> v.hi]]

--------------------------------------------------------------------------
(* rejectOutOfBounds: the pm_error() it calls, "" when it returns          *)

\* rejectOutOfBounds without the test of the right edge against the
\* image's right edge
rejectOutOfBounds_noRightCheck(cols, rows, leftcol, rightcol, toprow, bottomrow, pad) ==
    IF ~pad /\ leftcol < 0 THEN "oobLeft"
    ELSE IF ~pad /\ leftcol > IntSub(cols, 1) THEN "oobLeft"
    ELSE IF ~pad /\ rightcol < 0 THEN "oobRight"
    ELSE IF ~pad /\ toprow < 0 THEN "oobTop"
    ELSE IF ~pad /\ toprow > IntSub(rows, 1) THEN "oobTop"
    ELSE IF ~pad /\ bottomrow < 0 THEN "oobBottom"
    ELSE IF ~pad /\ bottomrow > IntSub(rows, 1) THEN "oobBottom"
    ELSE IF leftcol > rightcol THEN "invertedH"
    ELSE IF toprow > bottomrow THEN "invertedV"
    ELSE ""

\* rejectOutOfBounds with the two inversion tests inside the if (!pad)
rejectOutOfBounds_padSkipsInverted(cols, rows, leftcol, rightcol, toprow, bottomrow, pad) ==
    IF ~pad /\ leftcol < 0 THEN "oobLeft"
    ELSE IF ~pad /\ leftcol > IntSub(cols, 1) THEN "oobLeft"
    ELSE IF ~pad /\ rightcol < 0 THEN "oobRight"
    ELSE IF ~pad /\ rightcol > IntSub(cols, 1) THEN "oobRight"
    ELSE IF ~pad /\ toprow < 0 THEN "oobTop"
    ELSE IF ~pad /\ toprow > IntSub(rows, 1) THEN "oobTop"
    ELSE IF ~pad /\ bottomrow < 0 THEN "oobBottom"
    ELSE IF ~pad /\ bottomrow > IntSub(rows, 1) THEN "oobBottom"
    ELSE IF ~pad /\ leftcol > rightcol THEN "invertedH"
    ELSE IF ~pad /\ toprow > bottomrow THEN "invertedV"
    ELSE ""

rejectOutOfBounds(cols, rows, leftcol, rightcol, toprow, bottomrow, pad) ==
    IF ~pad /\ leftcol < 0 THEN "oobLeft"
    ELSE IF ~pad /\ leftcol > IntSub(cols, 1) THEN "oobLeft"
    ELSE IF ~pad /\ rightcol < 0 THEN "oobRight"
    ELSE IF ~pad /\ rightcol > IntSub(cols, 1) THEN "oobRight"
    ELSE IF ~pad /\ toprow < 0 THEN "oobTop"
    ELSE IF ~pad /\ toprow > IntSub(rows, 1) THEN "oobTop"
    ELSE IF ~pad /\ bottomrow < 0 THEN "oobBottom"
    ELSE IF ~pad /\ bottomrow > IntSub(rows, 1) THEN "oobBottom"
    ELSE IF leftcol > rightcol THEN "invertedH"
    ELSE IF toprow > bottomrow THEN "invertedV"
    ELSE ""

OutOfBoundsErrors == {"oobLeft", "oobRight", "oobTop", "oobBottom"}

InvertedErrors == {"invertedH", "invertedV"}

OverspecErrors == {"overspecH", "overspecV"}

--------------------------------------------------------------------------
(* Images and pixels                                                       *)
(*                                                                         *)
(* An image of the stream is [width, height, format, seed].  Its raster    *)
(* is a function of the seed: the samples of a PGM image are pairwise      *)
(* different and never black, the bits of a PBM image follow a pattern     *)
(* without a short period, inverted by the seed.                           *)

PBM_BLACK == 1

PBM_WHITE == 0

PAM_PBM_BLACK == 0

PAM_BW_WHITE == 1

PatternOnes == {0, 3, 4, 6, 9, 10, 11, 14}

\* The value the file holds for pixel (row, col): a bit for PBM (1 is
\* black), a gray sample for PGM.
filePixel(img, row, col) ==
    IF img.format = "PBM"
    THEN ((IF ((col + 5 * row) % 16) \in PatternOnes THEN 1 ELSE 0)
          + img.seed) % 2
    ELSE 1 + img.seed + 2 * (row * 32 + col)

\* pnm_readpamrow's sample for a file value: a PBM bit becomes 0 for black
\* and 1 for white, a PGM sample is itself.
sampleOfFile(format, v) ==
    IF format = "PBM"
    THEN (IF v = PBM_BLACK THEN PAM_PBM_BLACK ELSE PAM_BW_WHITE)
    ELSE v

\* pnm_writepamrow's file value for a sample
fileOfSample(format, s) ==
    IF format = "PBM"
    THEN (IF s = PAM_PBM_BLACK THEN PBM_BLACK ELSE PBM_WHITE)
    ELSE s

\* pnm_createBlackTuple: every sample 0
blackSample == 0

\* The file value of a black pixel of the format
blackFile(format) == fileOfSample(format, blackSample)

\* What a read through a pointer or of a cell that was never set yields
Indeterminate == 0 - 1

--------------------------------------------------------------------------
(* struct rowCutter                                                        *)

CopyPtr(k) == [kind |-> "copy", idx |-> k]

BlackPtr == [kind |-> "black", idx |-> 0]

DiscardPtr == [kind |-> "discard", idx |-> 0]

UnsetPtr == [kind |-> "unset", idx |-> 0]

\* Put in left padding
leftPadCols(outWidth, leftcol) ==
    {col \in leftcol .. (0 - 1) : col - leftcol < outWidth}

\* The loop of the extracted columns with < in place of <=
extractedCols_exclusive(inWidth, leftcol, rightcol) ==
    MAX(leftcol, 0) .. (MIN(rightcol, inWidth - 1) - 1)

\* Put in extracted columns
extractedCols(inWidth, leftcol, rightcol) ==
    MAX(leftcol, 0) .. MIN(rightcol, inWidth - 1)

\* Put in right padding
rightPadCols(inWidth, leftcol, rightcol) ==
    {col \in (MIN(rightcol, inWidth - 1) + 1) .. rightcol : col - leftcol >= 0}

\* Direct input pixels that are getting cut off to the discard tuple
discardLeftCols(inWidth, leftcol) == 0 .. (MIN(leftcol, inWidth) - 1)

\* The loop of the discarded right columns started one column early
discardRightCols_early(inWidth, rightcol) == MAX(0, rightcol) .. (inWidth - 1)

discardRightCols(inWidth, rightcol) == MAX(0, rightcol + 1) .. (inWidth - 1)

\* The five loops, in the order of the code: a later store to a slot
\* replaces an earlier one.  stray collects the slot indices stored to
\* outside the two arrays.
createRowCutter(inWidth, outWidth, leftcol, rightcol) ==
    LET lp == leftPadCols(outWidth, leftcol)
        ex == extractedCols(inWidth, leftcol, rightcol)
        rp == rightPadCols(inWidth, leftcol, rightcol)
        dl == discardLeftCols(inWidth, leftcol)
        dr == discardRightCols(inWidth, rightcol)
        out1 == [o \in 0 .. (outWidth - 1) |->
                    IF (o + leftcol) \in lp THEN BlackPtr ELSE UnsetPtr]
        out2 == [o \in 0 .. (outWidth - 1) |->
                    IF (o + leftcol) \in ex THEN CopyPtr(o) ELSE out1[o]]
        out3 == [o \in 0 .. (outWidth - 1) |->
                    IF (o + leftcol) \in rp THEN BlackPtr ELSE out2[o]]
        in2 == [c \in 0 .. (inWidth - 1) |->
                    IF c \in ex THEN CopyPtr(c - leftcol) ELSE UnsetPtr]
        in4 == [c \in 0 .. (inWidth - 1) |->
                    IF c \in dl THEN DiscardPtr ELSE in2[c]]
        in5 == [c \in 0 .. (inWidth - 1) |->
                    IF c \in dr THEN DiscardPtr ELSE in4[c]]
    IN  [inputWidth     |-> inWidth,
         outputWidth    |-> outWidth,
         inputPointers  |-> in5,
         outputPointers |-> out3,
         strayOut |-> {col - leftcol : col \in lp \cup ex \cup rp}
                          \ (0 .. (outWidth - 1)),
         strayIn  |-> (ex \cup dl \cup dr) \ (0 .. (inWidth - 1))]

\* pnm_readpamrow into inputPointers, then pnm_writepamrow from
\* outputPointers: the file values of the output row.  The columns are read
\* left to right, so the last input column stored in a cell is the one the
\* cell holds.
cutRowGen(rc, img, row) ==
    LET writers(k) == {c \in 0 .. (rc.inputWidth - 1) :
                          rc.inputPointers[c] = CopyPtr(k)}
        last(S) == CHOOSE c \in S : \A d \in S : d <= c
        cell(k) == IF writers(k) = {}
                   THEN Indeterminate
                   ELSE sampleOfFile(img.format,
                                     filePixel(img, row, last(writers(k))))
        sample(o) == LET p == rc.outputPointers[o]
                     IN  CASE p.kind = "copy"  -> cell(p.idx)
                           [] p.kind = "black" -> blackSample
                           [] OTHER            -> Indeterminate
    IN  [o \in 1 .. rc.outputWidth |->
            IF sample(o - 1) = Indeterminate
            THEN Indeterminate
            ELSE fileOfSample(img.format, sample(o - 1))]

\* writeBlackRows: 'rows' rows of outpam.width black tuples
writeBlackRows(format, outWidth, rows) ==
    [r \in 1 .. rows |-> [o \in 1 .. outWidth |-> blackFile(format)]]

RECURSIVE genRows(_, _, _, _, _)
\* The loop of extractRowsGen from input row 'row' on: every row is read,
\* a row of toprow..bottomrow is cut and written.
genRows(rc, img, toprow, bottomrow, row) ==
    IF row >= img.height THEN [out |-> <<>>, reads |-> <<>>]
    ELSE LET rest == genRows(rc, img, toprow, bottomrow, row + 1)
         IN  IF row >= toprow /\ row <= bottomrow
             THEN [out   |-> <<cutRowGen(rc, img, row)>> \o rest.out,
                   reads |-> <<row>> \o rest.reads]
             ELSE [out |-> rest.out, reads |-> <<row>> \o rest.reads]

\* extractRowsGen that quits after the bottom row of the rectangle
extractRowsGen_quitAtBottom(img, outWidth, leftcol, rightcol, toprow, bottomrow) ==
    LET top  == IF 0 - toprow > 0
                THEN writeBlackRows(img.format, outWidth, 0 - toprow)
                ELSE <<>>
        rc   == createRowCutter(img.width, outWidth, leftcol, rightcol)
        body == genRows(rc, img, toprow, bottomrow, 0)
        bot  == IF bottomrow - (img.height - 1) > 0
                THEN writeBlackRows(img.format, outWidth,
                                    bottomrow - (img.height - 1))
                ELSE <<>>
    IN  [err |-> "", out |-> top \o body.out \o bot,
         reads |-> SelectSeq(body.reads, LAMBDA row : row <= bottomrow)]

\* The rows written after the header and the input rows read, in order
extractRowsGen(img, outWidth, leftcol, rightcol, toprow, bottomrow) ==
    LET top  == IF 0 - toprow > 0
                THEN writeBlackRows(img.format, outWidth, 0 - toprow)
                ELSE <<>>
        rc   == createRowCutter(img.width, outWidth, leftcol, rightcol)
        body == genRows(rc, img, toprow, bottomrow, 0)
        bot  == IF bottomrow - (img.height - 1) > 0
                THEN writeBlackRows(img.format, outWidth,
                                    bottomrow - (img.height - 1))
                ELSE <<>>
    IN  [err |-> "", out |-> top \o body.out \o bot, reads |-> body.reads]

--------------------------------------------------------------------------
(* Packed PBM rows.  A packed row is a function from bit positions to      *)
(* bits: byte b holds positions 8b .. 8b+7, most significant bit first.    *)

pbm_packed_bytes(cols) == (cols + 7) \div 8

\* pbm_allocrow_packed: the bytes are not initialised
pbm_allocrow_packed(cols, fill) ==
    [p \in 0 .. (8 * pbm_packed_bytes(cols) - 1) |-> fill]

\* The bit at position p of a packed row; a position outside the
\* allocation reads an indeterminate bit.
bitAt(bitrow, p) == IF p \in DOMAIN bitrow THEN bitrow[p] ELSE Indeterminate

\* makeBlackPBMRow that leaves the row as it was allocated
makeBlackPBMRow_skip(bitrow, cols) == bitrow

\* Every byte of the first pbm_packed_bytes(cols) is set to 0xff and the
\* last one is shifted left so that the bits from cols on are 0.
makeBlackPBMRow(bitrow, cols) ==
    [p \in DOMAIN bitrow |->
        IF p < 8 * pbm_packed_bytes(cols)
        THEN (IF p < cols THEN PBM_BLACK ELSE 0)
        ELSE bitrow[p]]

\* The bytes makeBlackPBMRow stores to
blackRowBytes(cols) == 0 .. (pbm_packed_bytes(cols) - 1)

\* pbm_writepbmrow_packed: the pixels of the first 'cols' bit positions
pbm_writepbmrow_packed(bitrow, cols) ==
    [o \in 1 .. cols |-> bitAt(bitrow, o - 1)]

\* pbm_readpbmrow_bitoffset: the row of the file lands on the bit positions
\* offset .. offset+cols-1, the bits around them are preserved.
pbm_readpbmrow_bitoffset(bitrow, img, row, offset) ==
    [p \in DOMAIN bitrow |->
        IF p >= offset /\ p < offset + img.width
        THEN filePixel(img, row, p - offset)
        ELSE bitrow[p]]

\* pbm_writepbmrow_bitoffset works in place, in the window that starts at
\* byte offset/8: it shifts the window left by offset%8 bits, clears the
\* bits of the last byte from 'cols' on, and writes the window.  This is
\* the packed row it leaves behind.
shiftedWindow(bitrow, cols, offset) ==
    LET rsh        == offset % 8
        csh        == cols % 8
        base       == 8 * (offset \div 8)
        colByteCnt == pbm_packed_bytes(cols)
        last       == colByteCnt - 1
        carryover  == (csh = 0) \/ (rsh + csh > 8)
        shiftBytes == IF carryover THEN colByteCnt ELSE colByteCnt - 1
        shifted(q) ==
            IF rsh = 0 THEN bitAt(bitrow, base + q)
            ELSE IF q < 8 * shiftBytes THEN bitAt(bitrow, base + q + rsh)
            ELSE IF q + rsh < 8 * colByteCnt
                 THEN bitAt(bitrow, base + q + rsh)
                 ELSE 0
        cleaned(q) ==
            IF csh > 0 /\ q >= 8 * last + csh THEN 0 ELSE shifted(q)
    IN  [p \in DOMAIN bitrow |->
            IF p >= base /\ p < base + 8 * colByteCnt
            THEN cleaned(p - base)
            ELSE bitrow[p]]

\* The pixels pbm_writepbmrow_bitoffset writes: the first 'cols' bits of
\* the shifted window
pbm_writepbmrow_bitoffset(bitrow, cols, offset) ==
    LET w == shiftedWindow(bitrow, cols, offset)
    IN  [o \in 1 .. cols |-> bitAt(w, 8 * (offset \div 8) + o - 1)]

\* repair right padding: one byte of the row is set to 0xff * PBM_BLACK
repairByte(writeOffset, outWidth) ==
    writeOffset \div 8 + pbm_packed_bytes(outWidth) - 1

\* No repair of the right padding
repairRightPadding_none(bitrow, writeOffset, outWidth) == bitrow

repairRightPadding(bitrow, writeOffset, outWidth) ==
    [p \in DOMAIN bitrow |->
        IF p \div 8 = repairByte(writeOffset, outWidth)
        THEN PBM_BLACK
        ELSE bitrow[p]]

\* The width with the left edge's distance in place of the 7 spare bits
totalWidthPBM_abs(inWidth, leftcol, rightcol) ==
    IntAdd(IF leftcol < 0 THEN 0 - leftcol ELSE leftcol,
           MAX(IntAdd(rightcol, 1), inWidth))

\* The scratch row's width in bits, as the code computes it
totalWidthPBM(inWidth, leftcol, rightcol) ==
    IF leftcol > 0
    THEN IntAdd(MAX(IntAdd(rightcol, 1), inWidth), 7)
    ELSE IntAdd(0 - leftcol, MAX(IntAdd(rightcol, 1), inWidth))

\* A sum of totalWidth does not fit an int
totalWidthOverflows(inWidth, leftcol, rightcol) ==
    \/ AddOverflows(rightcol, 1)
    \/ /\ leftcol > 0
       /\ AddOverflows(MAX(IntAdd(rightcol, 1), inWidth), 7)
    \/ /\ leftcol <= 0
       /\ \/ leftcol = INT_MIN
          \/ AddOverflows(0 - leftcol, MAX(IntAdd(rightcol, 1), inWidth))

readOffsetPBM(leftcol) == IF leftcol > 0 THEN 0 ELSE 0 - leftcol

writeOffsetPBM(leftcol) == IF leftcol > 0 THEN leftcol ELSE 0

\* One real row: read at readOffset, write at writeOffset, repair
cutRowPBM(bitrow, img, row, outWidth, leftcol, rightcol) ==
    LET rd == pbm_readpbmrow_bitoffset(bitrow, img, row,
                                       readOffsetPBM(leftcol))
        wr == shiftedWindow(rd, outWidth, writeOffsetPBM(leftcol))
    IN  [out    |-> pbm_writepbmrow_bitoffset(rd, outWidth,
                                              writeOffsetPBM(leftcol)),
         bitrow |-> IF rightcol >= img.width
                    THEN repairRightPadding(wr, writeOffsetPBM(leftcol),
                                            outWidth)
                    ELSE wr]

RECURSIVE pbmRows(_, _, _, _, _, _, _, _)
\* The loop of extractRowsPBM from input row 'row' on
pbmRows(bitrow, img, outWidth, leftcol, rightcol, toprow, bottomrow, row) ==
    IF row >= img.height
    THEN [out |-> <<>>, reads |-> <<>>, bitrow |-> bitrow]
    ELSE IF row >= toprow /\ row <= bottomrow
    THEN LET one  == cutRowPBM(bitrow, img, row, outWidth, leftcol, rightcol)
             rest == pbmRows(one.bitrow, img, outWidth, leftcol, rightcol,
                             toprow, bottomrow, row + 1)
         IN  [out    |-> <<one.out>> \o rest.out,
              reads  |-> <<row>> \o rest.reads,
              bitrow |-> rest.bitrow]
    ELSE LET rest == pbmRows(bitrow, img, outWidth, leftcol, rightcol,
                             toprow, bottomrow, row + 1)
         IN  [out    |-> rest.out,
              reads  |-> <<row>> \o rest.reads,
              bitrow |-> rest.bitrow]

\* The rows written after the header and the input rows read, in order;
\* err is the pm_error() of the overflow guard.
extractRowsPBM(img, outWidth, leftcol, rightcol, toprow, bottomrow, fill) ==
    LET totalWidth == totalWidthPBM(img.width, leftcol, rightcol)
        alloc == pbm_allocrow_packed(totalWidth, fill)
        black == IF toprow < 0 \/ leftcol < 0 \/ rightcol >= img.width
                 THEN makeBlackPBMRow(alloc, totalWidth)
                 ELSE alloc
        top   == IF toprow < 0
                 THEN [r \in 1 .. (0 - toprow) |->
                          pbm_writepbmrow_packed(black, outWidth)]
                 ELSE <<>>
        body  == pbmRows(black, img, outWidth, leftcol, rightcol,
                         toprow, bottomrow, 0)
        bot   == IF bottomrow - (img.height - 1) > 0
                 THEN [r \in 1 .. (bottomrow - (img.height - 1)) |->
                          pbm_writepbmrow_packed(
                              makeBlackPBMRow(body.bitrow, outWidth),
                              outWidth)]
                 ELSE <<>>
    IN  IF totalWidth < 0 \/ totalWidth > INT_MAX - 10
        THEN [err |-> "pbmOverflow", out |-> <<>>, reads |-> <<>>]
        ELSE [err |-> "", out |-> top \o body.out \o bot,
              reads |-> body.reads]

--------------------------------------------------------------------------
(* The inputs: command lines and streams                                   *)

MaxCols == 2

MaxRows == 2

MaxImages == 2

MaxNeg == 3

MaxPos == 2

MaxSize == 2

EdgeVals == (0 - MaxNeg) .. MaxPos

SizeVals == 0 .. MaxSize

\* The values tried where all three options of an axis are given: the
\* ends of the ranges, and the largest int an option can hold
EdgeEnds == {0 - MaxNeg, 0, INT_MAX}

SizeEnds == {MaxSize, INT_MAX}

NoOpts == [n \in {} |-> 0]

\* An option is absent or has one of vals
optChoice(name, vals) == {NoOpts} \cup {name :> v : v \in vals}

\* Every way to give at most two of the three options of one axis, and
\* the ways to give all three with values of EdgeEnds and SizeEnds
richAxis(lo, hi, size) ==
    {l @@ h : l \in optChoice(lo, EdgeVals), h \in optChoice(hi, EdgeVals)}
      \cup {e @@ (size :> s) : e \in optChoice(lo, EdgeVals)
                                     \cup optChoice(hi, EdgeVals),
                               s \in SizeVals}
      \cup {(lo :> l) @@ (hi :> h) @@ (size :> s) :
               l \in EdgeEnds, h \in EdgeEnds, s \in SizeEnds}

\* A few ways to give them: nothing, the whole extent of an image, a
\* rectangle that starts one before the image
plainAxis(lo, hi, size, extent) ==
    {NoOpts, (hi :> 0) @@ (size :> 2)}
        \cup {(lo :> 0) @@ (hi :> k) : k \in 0 .. (extent - 1)}

Argvs(horiz, vert) ==
    {[opts |-> h @@ v, pad |-> p, nargs |-> 0, pos |-> <<>>] :
        h \in horiz, v \in vert, p \in BOOLEAN}

\* The legacy form: left top width height
LegacyArgvs(edges, sizes) ==
    {[opts |-> NoOpts, pad |-> p, nargs |-> 4, pos |-> <<l, t, w, h>>] :
        l \in edges, t \in edges, w \in sizes, h \in sizes, p \in BOOLEAN}

\* The samples of a PGM image do not depend on a seed worth varying
Images(cols, rows) ==
    {[width |-> w, height |-> h, format |-> "PBM", seed |-> s] :
        w \in cols, h \in rows, s \in {0, 1}}
      \cup {[width |-> w, height |-> h, format |-> "PGM", seed |-> 0] :
               w \in cols, h \in rows}

\* The image that follows img in a stream: other dimensions, the other
\* format
varied(img) ==
    [width  |-> (img.width % MaxCols) + 1,
     height |-> (img.height % MaxRows) + 1,
     format |-> IF img.format = "PBM" THEN "PGM" ELSE "PBM",
     seed   |-> IF img.format = "PBM" THEN 0 ELSE 1]

RECURSIVE streamFrom(_, _)
streamFrom(img, n) ==
    IF n = 1 THEN <<img>> ELSE <<img>> \o streamFrom(varied(img), n - 1)

\* Every image alone, and the streams of MaxImages images that start with
\* an image one column wide
Streams(cols, rows) ==
    {<<img>> : img \in Images(cols, rows)}
      \cup {streamFrom(img, MaxImages) :
                img \in {i \in Images({1}, rows) : i.seed = 0}}

\* What the bits of freshly allocated memory may all be
GarbageBits == {0, 1}

NoCmdline ==
    [left |-> UNSPEC, right |-> UNSPEC, top |-> UNSPEC, bottom |-> UNSPEC,
     width |-> UNSPEC, height |-> UNSPEC, pad |-> FALSE]

InitWith(argvs, streams) ==
    /\ argv \in argvs
    /\ stream \in streams
    /\ pc = "start"
    /\ cmdline = NoCmdline
    /\ imgIdx = 0
    /\ rect = NoRect
    /\ outHeaders = <<>>
    /\ outRows = <<>>
    /\ readLog = <<>>
    /\ nextCalls = 0
    /\ err = ""

--------------------------------------------------------------------------
(* The program                                                             *)

\* main up to the loop: parseCommandLine, pm_openr
Start ==
    /\ pc = "start"
    /\ LET r == parseCommandLine(argv)
       IN  IF r.err # ""
           THEN /\ pc' = "error"
                /\ err' = r.err
                /\ UNCHANGED <<cmdline, imgIdx>>
           ELSE /\ pc' = "image"
                /\ cmdline' = r.cmdline
                /\ imgIdx' = 1
                /\ err' = ""
    /\ UNCHANGED <<argv, stream, rect, outHeaders, outRows,
                   readLog, nextCalls>>

\* hi - lo + 1 does not fit an int
extentOverflows(lo, hi) ==
    SubOverflows(hi, lo) \/ AddOverflows(IntSub(hi, lo), 1)

\* A sum of computeCutBounds or of outpam.width, outpam.height does not
\* fit an int, on the way cutOneImage takes for img: b is what
\* computeCutBounds returns and e what rejectOutOfBounds raises
cutOverflows(img, cl, b, e) ==
    \/ axisOverflows(img.width, cl.left, cl.right, cl.width)
    \/ /\ b.err # "overspecH"
       /\ axisOverflows(img.height, cl.top, cl.bottom, cl.height)
    \/ /\ b.err = ""
       /\ e = ""
       /\ \/ extentOverflows(b.rect.leftcol, b.rect.rightcol)
          \/ extentOverflows(b.rect.toprow, b.rect.bottomrow)

\* outpam.width and outpam.height as cutOneImage computes them
outpamOf(img, r) ==
    [width  |-> IntAdd(IntSub(r.rightcol, r.leftcol), 1),
     height |-> IntAdd(IntSub(r.bottomrow, r.toprow), 1),
     format |-> img.format]

\* cutOneImage with pnm_writepaminit before rejectOutOfBounds
CutOneImage_headerFirst ==
    /\ pc = "image"
    /\ LET img == stream[imgIdx]
           b == computeCutBounds(img.width, img.height,
                                 cmdline.left, cmdline.right,
                                 cmdline.top, cmdline.bottom,
                                 cmdline.width, cmdline.height)
           e == rejectOutOfBounds(img.width, img.height, b.rect.leftcol,
                                  b.rect.rightcol, b.rect.toprow,
                                  b.rect.bottomrow, cmdline.pad)
       IN  /\ readLog' = Append(readLog, <<>>)
           /\ rect' = b.rect
           /\ IF b.err # ""
              THEN /\ pc' = "error"
                   /\ err' = b.err
                   /\ UNCHANGED <<outHeaders, outRows>>
              ELSE /\ pc' = IF e # "" THEN "error" ELSE "rows"
                   /\ err' = e
                   /\ outHeaders' = Append(outHeaders, outpamOf(img, b.rect))
                   /\ outRows' = Append(outRows, <<>>)
    /\ UNCHANGED <<argv, stream, cmdline, imgIdx, nextCalls>>

\* cutOneImage up to pnm_writepaminit: read the header, compute the
\* bounds, reject, write the output header
CutOneImage ==
    /\ pc = "image"
    /\ LET img == stream[imgIdx]
           b == computeCutBounds(img.width, img.height,
                                 cmdline.left, cmdline.right,
                                 cmdline.top, cmdline.bottom,
                                 cmdline.width, cmdline.height)
           e == rejectOutOfBounds(img.width, img.height, b.rect.leftcol,
                                  b.rect.rightcol, b.rect.toprow,
                                  b.rect.bottomrow, cmdline.pad)
       IN  \E how \in OverflowOutcomes(cutOverflows(img, cmdline, b, e)) :
             /\ readLog' = Append(readLog, <<>>)
             /\ rect' = b.rect
             /\ IF how = "trap"
                THEN /\ pc' = "error"
                     /\ err' = "trap"
                     /\ UNCHANGED <<outHeaders, outRows>>
                ELSE IF b.err # "" \/ e # ""
                THEN /\ pc' = "error"
                     /\ err' = IF b.err # "" THEN b.err ELSE e
                     /\ UNCHANGED <<outHeaders, outRows>>
                ELSE /\ pc' = "rows"
                     /\ err' = ""
                     /\ outHeaders' =
                            Append(outHeaders, outpamOf(img, b.rect))
                     /\ outRows' = Append(outRows, <<>>)
    /\ UNCHANGED <<argv, stream, cmdline, imgIdx, nextCalls>>

\* cutOneImage, the PBM branch
ExtractPBM ==
    /\ pc = "rows"
    /\ stream[imgIdx].format = "PBM"
    /\ \E fill \in GarbageBits,
          how \in OverflowOutcomes(
                      totalWidthOverflows(stream[imgIdx].width,
                                          rect.leftcol, rect.rightcol)) :
         IF how = "trap"
         THEN /\ pc' = "error"
              /\ err' = "trap"
              /\ UNCHANGED <<outRows, readLog>>
         ELSE LET r == extractRowsPBM(stream[imgIdx],
                                      outHeaders[imgIdx].width,
                                      rect.leftcol, rect.rightcol,
                                      rect.toprow, rect.bottomrow, fill)
              IN  /\ outRows' = [outRows EXCEPT ![imgIdx] = r.out]
                  /\ readLog' = [readLog EXCEPT ![imgIdx] = r.reads]
                  /\ pc' = IF r.err # "" THEN "error" ELSE "next"
                  /\ err' = r.err
    /\ UNCHANGED <<argv, stream, cmdline, imgIdx, rect,
                   outHeaders, nextCalls>>

\* cutOneImage, the branch of every other format
ExtractGen ==
    /\ pc = "rows"
    /\ stream[imgIdx].format # "PBM"
    /\ LET r == extractRowsGen(stream[imgIdx], outHeaders[imgIdx].width,
                               rect.leftcol, rect.rightcol,
                               rect.toprow, rect.bottomrow)
       IN  /\ outRows' = [outRows EXCEPT ![imgIdx] = r.out]
           /\ readLog' = [readLog EXCEPT ![imgIdx] = r.reads]
           /\ pc' = "next"
           /\ err' = ""
    /\ UNCHANGED <<argv, stream, cmdline, imgIdx, rect,
                   outHeaders, nextCalls>>

\* The loop of main left after the first image
NextImage_once ==
    /\ pc = "next"
    /\ nextCalls' = nextCalls + 1
    /\ pc' = "done"
    /\ UNCHANGED <<argv, stream, cmdline, imgIdx, rect, outHeaders,
                   outRows, readLog, err>>

\* pnm_nextimage and the loop test of main
NextImage ==
    /\ pc = "next"
    /\ nextCalls' = nextCalls + 1
    /\ IF imgIdx = Len(stream)
       THEN /\ pc' = "done"
            /\ UNCHANGED imgIdx
       ELSE /\ pc' = "image"
            /\ imgIdx' = imgIdx + 1
    /\ UNCHANGED <<argv, stream, cmdline, rect, outHeaders,
                   outRows, readLog, err>>

Next == Start \/ CutOneImage \/ ExtractPBM \/ ExtractGen \/ NextImage

\* Command lines that are rich on one axis and plain on the other, and
\* the legacy form
SmallArgvs ==
    Argvs(richAxis("left", "right", "width"),
          plainAxis("top", "bottom", "height", MaxRows))
      \cup Argvs(plainAxis("left", "right", "width", MaxCols),
                 richAxis("top", "bottom", "height"))

Init == InitWith(SmallArgvs, Streams(1 .. MaxCols, 1 .. MaxRows))

Spec == Init /\ [][Next]_vars

--------------------------------------------------------------------------
(* What the claims speak of                                                *)

\* The image being processed
CurImage == stream[imgIdx]

ParseErrors == {"width", "height", "argcount"}

ValidationErrors == OverspecErrors \cup OutOfBoundsErrors \cup InvertedErrors

\* rejectOutOfBounds has just run on rect: it returned, or it raised
Validated ==
    \/ pc = "rows"
    \/ pc = "error" /\ err \in OutOfBoundsErrors \cup InvertedErrors

\* The rows of the current image have just been extracted
Extracted == pc = "next"

Outside(r, img) ==
    \/ r.leftcol < 0
    \/ r.rightcol >= img.width
    \/ r.toprow < 0
    \/ r.bottomrow >= img.height

Inverted(r) == r.leftcol > r.rightcol \/ r.toprow > r.bottomrow

\* The pixel a cut must show at input position (row, col): the pixel of
\* the image inside it, black outside
expectedPixel(img, row, col) ==
    IF col >= 0 /\ col < img.width /\ row >= 0 /\ row < img.height
    THEN filePixel(img, row, col)
    ELSE blackFile(img.format)

\* Input row 'row' cut to the columns leftcol .. leftcol+width-1
expectedRow(img, row, leftcol, width) ==
    [o \in 1 .. width |-> expectedPixel(img, row, leftcol + o - 1)]

\* (C1) Every image that passed validation and whose extraction has
\* completed had each of its rows, kept or discarded, read exactly once
\* and in increasing order, on the general and on the packed path.
C1_EveryRowReadOnceInOrder ==
    \A k \in 1 .. Len(readLog) :
        (k < imgIdx \/ pc \in {"next", "done"})
            => readLog[k] = [i \in 1 .. stream[k].height |-> i - 1]

\* A packed image, the second of its stream, of which the first row was
\* discarded and the second kept
C1_Witness ==
    /\ Extracted
    /\ imgIdx = 2
    /\ CurImage.format = "PBM"
    /\ CurImage.height = 2
    /\ rect.toprow = 1
    /\ readLog[2] = <<0, 1>>

\* (C2, as stated) A rectangle with an edge outside the image fails
\* validation with an out-of-bounds error without -pad and passes it with
\* -pad.
C2_PadAlwaysAccepts ==
    (Validated /\ Outside(rect, CurImage))
        => IF cmdline.pad THEN err = "" ELSE err \in OutOfBoundsErrors

\* (C2, amended) A rectangle with an edge outside the image fails
\* validation with an out-of-bounds error without -pad; with -pad it
\* passes validation unless it is inverted, and then it fails with the
\* inverted-rectangle error.
C2_BoundsRejection ==
    (Validated /\ Outside(rect, CurImage))
        => IF ~cmdline.pad THEN err \in OutOfBoundsErrors
           ELSE IF Inverted(rect) THEN err \in InvertedErrors
           ELSE err = ""

\* With -pad, a rectangle that starts left of the image and ends below it
\* has passed validation
C2_Witness ==
    /\ pc = "rows"
    /\ cmdline.pad
    /\ rect.leftcol < 0
    /\ rect.bottomrow >= CurImage.height

\* The seven-case table of one axis, over the arguments with a negative
\* edge n replaced by extent+n
tableEdge(extent, arg) ==
    IF arg # UNSPEC /\ arg < 0 THEN extent + arg ELSE arg

tableAxis(extent, loArg, hiArg, size) ==
    LET lo == tableEdge(extent, loArg)
        hi == tableEdge(extent, hiArg)
    IN  IF lo = UNSPEC
        THEN IF hi = UNSPEC
             THEN IF size = UNSPEC THEN <<0, extent - 1>>
                                   ELSE <<0, size - 1>>
             ELSE IF size = UNSPEC THEN <<0, hi>>
                                   ELSE <<hi - size + 1, hi>>
        ELSE IF hi = UNSPEC
             THEN IF size = UNSPEC THEN <<lo, extent - 1>>
                                   ELSE <<lo, lo + size - 1>>
             ELSE <<lo, hi>>

\* (C3) Whenever computeCutBounds returns a rectangle, its columns are
\* those of the seven-case table over left, right, width and the image's
\* width, and its rows those of the same table over top, bottom, height
\* and the image's height.
C3_SevenCaseTable ==
    Validated =>
        /\ <<rect.leftcol, rect.rightcol>> =
               tableAxis(CurImage.width, cmdline.left, cmdline.right,
                         cmdline.width)
        /\ <<rect.toprow, rect.bottomrow>> =
               tableAxis(CurImage.height, cmdline.top, cmdline.bottom,
                         cmdline.height)

\* A far-edge-relative bottom with a height, on an image of two rows
C3_Witness ==
    /\ pc = "rows"
    /\ CurImage.height = 2
    /\ cmdline.top = UNSPEC
    /\ cmdline.bottom = 0 - 1
    /\ cmdline.height = 2
    /\ rect.toprow = 0
    /\ rect.bottomrow = 1

\* The options -left, -right and -width are all on the command line
GivenHoriz == {"left", "right", "width"} \subseteq DOMAIN argv.opts

GivenVert == {"top", "bottom", "height"} \subseteq DOMAIN argv.opts

\* (C4) Once the command line is parsed, -left, -right and -width given
\* together make the resolution fail with the over-specified-axis error
\* whatever their values, likewise -top, -bottom and -height, and no
\* header is written.
C4_OverspecifiedAlwaysFails ==
    (pc \notin {"start", "image"} /\ err \notin ParseErrors
         /\ argv.nargs \in {0, 1} /\ (GivenHoriz \/ GivenVert))
        => /\ pc = "error"
           /\ err \in OverspecErrors
           /\ GivenHoriz => err = "overspecH"
           /\ outHeaders = <<>>

\* (C5) Row extraction starts only on a rectangle with leftcol <= rightcol
\* and toprow <= bottomrow: an inverted rectangle is rejected by
\* validation with and without -pad.
C5_InvertedRejected ==
    /\ pc = "rows" => ~Inverted(rect)
    /\ (Validated /\ Inverted(rect))
           => pc = "error" /\ err \in OutOfBoundsErrors \cup InvertedErrors

\* With -pad, a rectangle whose top is below its bottom was rejected
C5_Witness ==
    /\ pc = "error"
    /\ cmdline.pad
    /\ rect.toprow > rect.bottomrow
    /\ rect.leftcol <= rect.rightcol
    /\ err = "invertedV"

\* (C6, as stated) When a validation failure is raised, no output header
\* and no output row has been written.
C6_NoOutputAtAll ==
    (pc = "error" /\ err \in ValidationErrors)
        => outHeaders = <<>> /\ outRows = <<>>

\* (C6, amended) When a validation failure is raised, no output header
\* and no output row has been written for the image being processed; the
\* output is that of the images before it.
C6_NoOutputForImage ==
    (pc = "error" /\ err \in ValidationErrors)
        => /\ Len(outHeaders) = imgIdx - 1
           /\ Len(outRows) = imgIdx - 1
           /\ \A k \in 1 .. (imgIdx - 1) : outRows[k] # <<>>

\* The second image of a stream fails the bounds check after the first
\* one was cut
C6_Witness ==
    /\ pc = "error"
    /\ err \in OutOfBoundsErrors
    /\ imgIdx = 2
    /\ Len(outHeaders) = 1

\* The arguments of an identity cut of img
identityArgs(img) ==
    /\ cmdline.width = UNSPEC
    /\ cmdline.height = UNSPEC
    /\ \/ /\ cmdline.left = UNSPEC
          /\ cmdline.right = UNSPEC
          /\ cmdline.top = UNSPEC
          /\ cmdline.bottom = UNSPEC
       \/ /\ cmdline.left = 0
          /\ cmdline.right = img.width - 1
          /\ cmdline.top = 0
          /\ cmdline.bottom = img.height - 1

\* (C7) An identity cut writes a header with the image's width, height
\* and format, and the image's rows, pixel for pixel.
C7_IdentityCut ==
    (Extracted /\ identityArgs(CurImage))
        => /\ outHeaders[imgIdx] =
                  [width  |-> CurImage.width,
                   height |-> CurImage.height,
                   format |-> CurImage.format]
           /\ outRows[imgIdx] =
                  [r \in 1 .. CurImage.height |->
                      expectedRow(CurImage, r - 1, 0, CurImage.width)]

\* The explicit identity cut of a 2 x 2 image
C7_Witness ==
    /\ Extracted
    /\ CurImage.width = 2
    /\ CurImage.height = 2
    /\ cmdline.left = 0
    /\ cmdline.right = 1
    /\ cmdline.top = 0
    /\ cmdline.bottom = 1
    /\ Len(outRows[imgIdx]) = 2

\* The number of input rows of toprow..bottomrow when toprow < 0
realRows(img, r) == MAX(0, MIN(r.bottomrow, img.height - 1) + 1)

\* (C8) With toprow = -k, k > 0, the first k rows written are black rows
\* of the output width, and the rows after them are the input rows from
\* row 0 on, cut to the columns of the rectangle.
C8_TopPadding ==
    (Extracted /\ rect.toprow < 0)
        => LET k   == 0 - rect.toprow
               w   == outHeaders[imgIdx].width
               out == outRows[imgIdx]
           IN  /\ Len(out) >= k + realRows(CurImage, rect)
               /\ \A r \in 1 .. k :
                      out[r] = [o \in 1 .. w |-> blackFile(CurImage.format)]
               /\ \A i \in 1 .. realRows(CurImage, rect) :
                      out[k + i] =
                          expectedRow(CurImage, i - 1, rect.leftcol, w)

\* Two black rows above the only row of a packed image
C8_Witness ==
    /\ Extracted
    /\ CurImage.format = "PBM"
    /\ CurImage.height = 1
    /\ rect.toprow = 0 - 2
    /\ rect.bottomrow = 0
    /\ Len(outRows[imgIdx]) = 3

--------------------------------------------------------------------------
(* The legacy form, on small images and on the 10 x 10 image of the        *)
(* scenario                                                                *)

MaxLegacy == 5

LegacyEdges == {0 - 1, 0, 1}

LegacySizes == (0 - MaxLegacy) .. MaxSize

LegacyDims == {2, 10}

InitLegacy ==
    InitWith(LegacyArgvs(LegacyEdges, LegacySizes),
             {<<img>> : img \in Images(LegacyDims, LegacyDims)})

SpecLegacy == InitLegacy /\ [][Next]_vars

\* (C9) In the legacy form the first two arguments become left and top;
\* a positive third argument becomes the width and leaves right
\* unspecified, any other one leaves the width unspecified and becomes
\* right, minus one; the fourth does the same for height and bottom.  On
\* a 10 x 10 image, 0 0 -5 -5 resolves to columns 0..4 and rows 0..4.
C9_LegacyForm ==
    (argv.nargs \in {4, 5} /\ pc # "start" /\ err \notin ParseErrors)
        => /\ cmdline.left = argv.pos[1]
           /\ cmdline.top = argv.pos[2]
           /\ IF argv.pos[3] > 0
              THEN cmdline.width = argv.pos[3] /\ cmdline.right = UNSPEC
              ELSE cmdline.width = UNSPEC /\ cmdline.right = argv.pos[3] - 1
           /\ IF argv.pos[4] > 0
              THEN cmdline.height = argv.pos[4] /\ cmdline.bottom = UNSPEC
              ELSE cmdline.height = UNSPEC
                   /\ cmdline.bottom = argv.pos[4] - 1
           /\ (/\ argv.pos = <<0, 0, 0 - 5, 0 - 5>>
               /\ pc \notin {"image", "done"}
               /\ CurImage.width = 10
               /\ CurImage.height = 10)
                  => /\ pc # "error"
                     /\ rect = [leftcol |-> 0, rightcol |-> 4,
                                toprow |-> 0, bottomrow |-> 4]

\* 0 0 -5 -5 on a 10 x 10 image, validated
C9_Witness ==
    /\ pc = "rows"
    /\ argv.pos = <<0, 0, 0 - 5, 0 - 5>>
    /\ CurImage.width = 10
    /\ CurImage.height = 10
    /\ cmdline.right = 0 - 6
    /\ rect.rightcol = 4
    /\ rect.bottomrow = 4

--------------------------------------------------------------------------
(* Packed images with rectangles wide enough to cross byte boundaries      *)

WideMax == 12

WideCols == 9

WideRows == 3

WideHoriz ==
    {("left" :> l) @@ ("right" :> r) : l \in 0 .. WideMax, r \in 0 .. WideMax}
      \cup {("right" :> r) @@ ("width" :> w) :
               r \in 0 .. WideMax, w \in 1 .. WideMax}

WideVert ==
    {NoOpts, ("bottom" :> 0) @@ ("height" :> 2),
     ("top" :> 1) @@ ("height" :> WideRows)}

WideArgvs ==
    {[opts |-> h @@ v, pad |-> TRUE, nargs |-> 0, pos |-> <<>>] :
        h \in WideHoriz, v \in WideVert}

InitWide ==
    InitWith(WideArgvs, {<<img>> : img \in Images(1 .. WideCols, {WideRows})})

SpecWide == InitWide /\ [][Next]_vars

\* (C10) For a 1-bit image, the rows the packed path has written are the
\* rows the general path writes for the same image and rectangle: as many
\* black rows before and after, and the same pixel at every column of
\* every row.
C10_PackedEqualsGeneral ==
    (Extracted /\ CurImage.format = "PBM")
        => outRows[imgIdx] =
               extractRowsGen(CurImage, outHeaders[imgIdx].width,
                              rect.leftcol, rect.rightcol,
                              rect.toprow, rect.bottomrow).out

\* Three rows written from bit offset 7 with right padding
C10_Witness ==
    /\ Extracted
    /\ CurImage.format = "PBM"
    /\ CurImage.width = 9
    /\ rect.leftcol = 7
    /\ rect.rightcol = 12
    /\ rect.toprow = 0
    /\ Len(outRows[imgIdx]) = 3

--------------------------------------------------------------------------
(* The loop of main over the images of the stream                          *)

LoopImages == 3

\* A few command lines, with and without padding, and streams of up to
\* LoopImages images whose dimensions and formats change from one image to
\* the next
LoopArgvs ==
    Argvs({NoOpts, ("right" :> 0) @@ ("width" :> 2)},
          {NoOpts, ("top" :> 0) @@ ("bottom" :> 0)})

\* Image k of the endless sequence the streams of the loop runs are cut
\* from: widths, heights and formats change from one image to the next;
\* the packed images are one row high
loopImage(k) ==
    [width  |-> 1 + (k % 2),
     height |-> IF k % 3 = 0 THEN 1 ELSE 1 + ((k \div 2) % 2),
     format |-> IF k % 3 = 0 THEN "PBM" ELSE "PGM",
     seed   |-> 1]

\* The n images from image s on
loopStream(s, n) == [i \in 1 .. n |-> loopImage(s + i - 1)]

FarGap == 8

\* A right edge so far right that the packed path refuses the rectangle
FarRightArgvs ==
    {[opts |-> ("left" :> 1) @@ ("right" :> INT_MAX - FarGap),
      pad |-> TRUE, nargs |-> 0, pos |-> <<>>]}

InitLoop ==
    \/ InitWith(LoopArgvs,
                {loopStream(s, n) : s \in 0 .. 2, n \in 1 .. LoopImages})
    \/ InitWith(FarRightArgvs,
                {loopStream(0, n) : n \in 1 .. LoopImages})

\* main runs to its end: no step of it waits for anything but input
SpecLoop == InitLoop /\ [][Next]_vars /\ WF_vars(Next)

\* The header cutOneImage writes for image k of the stream under the
\* command line cl
headerOf(k, cl) ==
    outpamOf(stream[k],
             computeCutBounds(stream[k].width, stream[k].height,
                              cl.left, cl.right, cl.top, cl.bottom,
                              cl.width, cl.height).rect)

\* Image k passes computeCutBounds and rejectOutOfBounds under cl
passes(k, cl) ==
    LET b == computeCutBounds(stream[k].width, stream[k].height,
                              cl.left, cl.right, cl.top, cl.bottom,
                              cl.width, cl.height)
    IN  /\ b.err = ""
        /\ rejectOutOfBounds(stream[k].width, stream[k].height,
                             b.rect.leftcol, b.rect.rightcol,
                             b.rect.toprow, b.rect.bottomrow, cl.pad) = ""

\* The command line parses and every image of the stream passes validation
AllPass ==
    LET p == parseCommandLine(argv)
    IN  /\ p.err = ""
        /\ \A k \in 1 .. Len(stream) : passes(k, p.cmdline)

\* The images are taken in stream order, the command line stays as parsed,
\* header k is the one of image k's own dimensions, the reader has been
\* asked for a following image once after each image done, and at the end
\* there are as many headers as images.
StreamLoopInv ==
    LET cl == parseCommandLine(argv).cmdline
    IN  /\ (pc # "start" /\ err \notin ParseErrors) => cmdline = cl
        /\ \A k \in 1 .. Len(outHeaders) : outHeaders[k] = headerOf(k, cl)
        /\ Len(outRows) = Len(outHeaders)
        /\ pc = "image"
              => Len(outHeaders) = imgIdx - 1 /\ nextCalls = imgIdx - 1
        /\ pc \in {"rows", "next"}
              => Len(outHeaders) = imgIdx /\ nextCalls = imgIdx - 1
        /\ pc = "done"
              => /\ imgIdx = Len(stream)
                 /\ Len(outHeaders) = Len(stream)
                 /\ nextCalls = Len(stream)

\* No packed image of the stream makes extractRowsPBM's overflow guard
\* fire under the parsed command line
NoGuardFires ==
    LET cl == parseCommandLine(argv).cmdline
    IN  \A k \in 1 .. Len(stream) :
            stream[k].format = "PBM"
                => LET r == computeCutBounds(stream[k].width,
                                             stream[k].height,
                                             cl.left, cl.right, cl.top,
                                             cl.bottom, cl.width,
                                             cl.height).rect
                       t == totalWidthPBM(stream[k].width, r.leftcol,
                                          r.rightcol)
                   IN  t >= 0 /\ t <= INT_MAX - 10

\* (C11), as stated: for a stream of N images that all pass validation
\* the program takes the images in order, resolves each rectangle from the
\* image's own dimensions and the unchanged command line, writes N
\* headers, asks for a following image after each one, and terminates at
\* the end of the stream.
C11_AllPassRunsToEnd == []StreamLoopInv /\ (AllPass ~> (pc = "done"))

\* (C11) The same, for streams whose images pass validation and, where
\* they are packed, the overflow guard of extractRowsPBM.
C11_StreamLoop ==
    []StreamLoopInv /\ ((AllPass /\ NoGuardFires) ~> (pc = "done"))

\* A stream of two images of different widths, both cut, at its end
C11_Witness ==
    /\ pc = "done"
    /\ Len(stream) = 2
    /\ Len(outHeaders) = 2
    /\ nextCalls = 2
    /\ outHeaders[1].width # outHeaders[2].width
    /\ outHeaders[1].width = stream[1].width
    /\ outHeaders[2].width = stream[2].width

--------------------------------------------------------------------------
(* Rows written against the height of the header                           *)

\* (C12) For every image that passed validation, the number of rows
\* written after the header is the height the header declares, on both
\* paths, with or without -pad, wherever the rectangle lies.
C12_RowsMatchHeader ==
    Extracted => Len(outRows[imgIdx]) = outHeaders[imgIdx].height

\* The rectangle has at least one row in common with the image
OverlapsRows == rect.bottomrow >= 0 /\ rect.toprow <= CurImage.height - 1

\* The rows written are as many as the header declares when the rectangle
\* has a row in common with the image
RowsMatchHeaderWhenOverlapping ==
    (Extracted /\ OverlapsRows)
        => Len(outRows[imgIdx]) = outHeaders[imgIdx].height

--------------------------------------------------------------------------
(* The row plan of createRowCutter                                         *)

\* How many of the three loops over output slots store to slot o
outStores(inWidth, outWidth, leftcol, rightcol, o) ==
    Cardinality({n \in 1 .. 3 :
        (o + leftcol) \in
            <<leftPadCols(outWidth, leftcol),
              extractedCols(inWidth, leftcol, rightcol),
              rightPadCols(inWidth, leftcol, rightcol)>>[n]})

\* How many of the three loops over input slots store to slot c
inStores(inWidth, leftcol, rightcol, c) ==
    Cardinality({n \in 1 .. 3 :
        c \in <<extractedCols(inWidth, leftcol, rightcol),
                discardLeftCols(inWidth, leftcol),
                discardRightCols(inWidth, rightcol)>>[n]})

\* (C13) The row plan of a validated rectangle stores to every input slot
\* and to every output slot exactly once and to no slot outside the two
\* arrays; output column o is the cell of input column o + leftcol where
\* that column exists and black otherwise; input column c is the cell of
\* output column c - leftcol where leftcol <= c <= rightcol and the discard
\* tuple otherwise.
C13_RowPlan ==
    (Extracted /\ CurImage.format # "PBM")
        => LET inW  == CurImage.width
               outW == outHeaders[imgIdx].width
               l    == rect.leftcol
               r    == rect.rightcol
               rc   == createRowCutter(inW, outW, l, r)
           IN  /\ outW = r - l + 1
               /\ rc.strayOut = {}
               /\ rc.strayIn = {}
               /\ DOMAIN rc.outputPointers = 0 .. (outW - 1)
               /\ DOMAIN rc.inputPointers = 0 .. (inW - 1)
               /\ \A o \in 0 .. (outW - 1) :
                      /\ outStores(inW, outW, l, r, o) = 1
                      /\ rc.outputPointers[o] =
                             IF 0 <= o + l /\ o + l <= inW - 1
                             THEN CopyPtr(o)
                             ELSE BlackPtr
               /\ \A c \in 0 .. (inW - 1) :
                      /\ inStores(inW, l, r, c) = 1
                      /\ rc.inputPointers[c] =
                             IF l <= c /\ c <= r
                             THEN CopyPtr(c - l)
                             ELSE DiscardPtr

\* A plan with left padding, a copied column and a discarded column
C13_Witness ==
    /\ Extracted
    /\ CurImage.format = "PGM"
    /\ CurImage.width = 2
    /\ rect.leftcol = 0 - 1
    /\ rect.rightcol = 0
    /\ outRows[imgIdx][1][1] = blackFile("PGM")
    /\ outRows[imgIdx][1][2] = filePixel(CurImage, MAX(rect.toprow, 0), 0)

--------------------------------------------------------------------------
(* The scratch row of the packed path                                      *)

\* totalWidth of extractRowsPBM for the image and rectangle at hand
totalWidthNow == totalWidthPBM(CurImage.width, rect.leftcol, rect.rightcol)

\* max(rightCol + 1, inputWidth)
reach == MAX(rect.rightcol + 1, CurImage.width)

\* (C14), as stated: the scratch row is |leftCol| + max(rightCol + 1,
\* inputWidth) bits wide, whatever the sign of leftCol.
C14_TotalWidthAbs ==
    (Extracted /\ CurImage.format = "PBM")
        => totalWidthNow =
               (IF rect.leftcol < 0 THEN 0 - rect.leftcol ELSE rect.leftcol)
                   + reach

\* (C14) The scratch row is max(rightCol + 1, inputWidth) + 7 bits wide
\* when leftCol > 0, and -leftCol + max(rightCol + 1, inputWidth) bits wide
\* when leftCol <= 0.
C14_TotalWidth ==
    (Extracted /\ CurImage.format = "PBM")
        => /\ rect.leftcol > 0 => totalWidthNow = reach + 7
           /\ rect.leftcol <= 0 => totalWidthNow = reach - rect.leftcol

\* A rectangle that starts at column 3 of a packed image 9 columns wide
\* and ends at column 12: 20 bits
C14_Witness ==
    /\ Extracted
    /\ CurImage.format = "PBM"
    /\ CurImage.width = 9
    /\ rect.leftcol = 3
    /\ rect.rightcol = 12
    /\ totalWidthNow = 20

--------------------------------------------------------------------------
(* Rectangles with edges near the ends of the int range.  Only packed      *)
(* images take them: the general path would loop over every column.        *)

FarLeftGap == 1

\* A left edge and a width whose sum is one more than INT_MAX; edges
\* further apart than INT_MAX; a right edge and a width whose difference
\* is less than INT_MIN; a right edge the overflow guard refuses
FarArgvs ==
    {[opts |-> o, pad |-> p, nargs |-> 0, pos |-> <<>>] :
        o \in {("left" :> INT_MAX - FarLeftGap)
                   @@ ("width" :> FarLeftGap + 1),
               ("left" :> 0 - (INT_MAX - FarLeftGap))
                   @@ ("right" :> INT_MAX - FarLeftGap),
               ("right" :> 0 - (INT_MAX - FarLeftGap))
                   @@ ("width" :> INT_MAX - FarLeftGap),
               ("left" :> 1) @@ ("right" :> INT_MAX - FarGap)},
        p \in BOOLEAN}

InitFar ==
    \/ InitWith(Argvs(plainAxis("left", "right", "width", MaxCols),
                      plainAxis("top", "bottom", "height", MaxRows)),
                {<<img>> : img \in Images(1 .. MaxCols, 1 .. MaxRows)})
    \/ InitWith(FarArgvs,
                {<<img>> : img \in {i \in Images(1 .. MaxCols, 1 .. MaxRows) :
                                       i.format = "PBM"}})

SpecFar == InitFar /\ [][Next]_vars

\* (C15) When extractRowsPBM has passed its overflow guard, every access
\* stays inside the scratch row of totalWidth bits: the read at readOffset,
\* the write at writeOffset, the black rows of outputWidth bits, and the
\* byte the repair of the right padding stores to.
C15_AccessesInside ==
    (Extracted /\ CurImage.format = "PBM")
        => LET total == totalWidthNow
               inW   == CurImage.width
               outW  == outHeaders[imgIdx].width
               ro    == readOffsetPBM(rect.leftcol)
               wo    == writeOffsetPBM(rect.leftcol)
           IN  /\ ro <= total - inW
               /\ outW <= total
               /\ wo <= total - outW
               /\ rect.rightcol >= inW
                     => repairByte(wo, outW) < pbm_packed_bytes(total)

\* The same without a sum that left the int range on the way
AccessesInsideWithoutOverflow ==
    (/\ Extracted
     /\ CurImage.format = "PBM"
     /\ ~totalWidthOverflows(CurImage.width, rect.leftcol, rect.rightcol))
        => LET total == totalWidthNow
               inW   == CurImage.width
               outW  == outHeaders[imgIdx].width
               ro    == readOffsetPBM(rect.leftcol)
               wo    == writeOffsetPBM(rect.leftcol)
           IN  /\ ro <= total - inW
               /\ outW <= total
               /\ wo <= total - outW
               /\ rect.rightcol >= inW
                     => repairByte(wo, outW) < pbm_packed_bytes(total)

\* (C16) The width and height of a header written are at least 1 and are
\* rightCol - leftCol + 1 and bottomRow - topRow + 1 exactly, and no sum of
\* the resolver left the int range.
C16_NoWrap ==
    pc \in {"rows", "next"}
        => LET hdr == outHeaders[imgIdx]
           IN  /\ hdr.width >= 1
               /\ hdr.height >= 1
               /\ ~SubOverflows(rect.rightcol, rect.leftcol)
               /\ rect.rightcol - rect.leftcol = hdr.width - 1
               /\ ~SubOverflows(rect.bottomrow, rect.toprow)
               /\ rect.bottomrow - rect.toprow = hdr.height - 1
               /\ ~axisOverflows(CurImage.width, cmdline.left,
                                 cmdline.right, cmdline.width)
               /\ ~axisOverflows(CurImage.height, cmdline.top,
                                 cmdline.bottom, cmdline.height)

==========================================================================
